---- MODULE Spec2Model ----
(***************************************************************************)
(* Model of the trading loop of src/app.py: trading_bot and the functions  *)
(* it calls (get_btc_ohlcv, analyze_with_deepseek, get_current_position,   *)
(* execute_trade, create_market_order_safe), the ledger files the request  *)
(* handlers keep (trade_stats.json, equity_curve.json), and the exchange   *)
(* account the loop talks to.                                              *)
(*                                                                         *)
(* Units.  Position sizes are counted in units of 0.01 contract, money in  *)
(* units of 0.001 USDT, timestamps in ticks of the cycle counter.          *)
(***************************************************************************)
EXTENDS Integers, Sequences, FiniteSets, TLC

VARIABLES
    bot_running,      \* global bot_running
    pc,               \* position of the trading_bot thread
    exchange_ok,      \* global exchange is not None
    deepseek_ok,      \* global deepseek_client is not None
    trading_config,   \* global trading_config (the options the loop reads)
    price_history,    \* global price_history
    signal_history,   \* global signal_history; an entry is the signal_data of one
                      \* cycle, named by the timestamp line 742 gives it
    price_data,       \* trading_bot local price_data
    signal_data,      \* trading_bot local signal_data
    ctx_pos,          \* analyze_with_deepseek local current_pos
    exec_pos,         \* execute_trade local current_position
    orders,           \* requests sent to private_post_trade_order in this cycle
    order_result,     \* outcome of the order call of this cycle
    published,        \* the 'update_data' event emitted by this cycle
    exPos,            \* exchange: signed position quantity of the instrument
    exBal,            \* exchange: account balance
    exUpl,            \* exchange: unrealized PnL of the open position
    trade_stats,      \* file trade_stats.json
    equity_curve,     \* file equity_curve.json
    bot_config,       \* file bot_config.json
    cycle,            \* number of cycles started (wall clock of the model)
    prev_close,       \* signal of the previous cycle if it closed a position cleanly
    moves,            \* number of changes made to the account from outside
    response,         \* analyze_with_deepseek local result: the text of the reply
    at_start,         \* trading_config and the histories as the cycle found them
    trade_audit,      \* file trade_audit.json
    stats,            \* the 'stats' of the last /api/equity_curve response
    observed,         \* every price_data analyze_with_deepseek has recorded
    balance_format,   \* how the exchange renders the fields of the balance payload
    answered,         \* the exchange answered the position read of analyze_with_deepseek
    config_reply,     \* status of the last /api/update_config response
    exLever,          \* leverage set at the exchange for the instrument, 0 before any
    candles,          \* the candles the exchange returns for the instrument
    RATE_LIMIT,       \* RATE_LIMIT[client_ip] for the one client address
    handlers,         \* the request threads inside decorated_function
    admitted,         \* requests let through to the handler, by time of request
    clock             \* time.time()

vars == << bot_running, pc, exchange_ok, deepseek_ok, trading_config,
           price_history, signal_history, price_data, signal_data, ctx_pos,
           exec_pos, orders, order_result, published, exPos, exBal, exUpl,
           trade_stats, equity_curve, bot_config, cycle, prev_close, moves,
           response, at_start, trade_audit, stats, observed, balance_format,
           answered, config_reply, exLever, candles, RATE_LIMIT, handlers,
           admitted, clock >>

----------------------------------------------------------------------------
(* Bounds of the model *)

MaxPos == 2          \* largest position magnitude the account holds
MaxCycles == 2       \* cycles of the loop that are explored
MaxMoves == 1        \* market moves and outside trades that are explored
MaxAudit == 3        \* entries of trade_audit.json
MaxFetches == 25     \* snapshots recorded in a long run of the loop
MaxSkips == 2        \* failed snapshot fetches in a long run of the loop
MaxLeverage == 3      \* largest leverage bot_config.json asks for
MaxCandles == 4       \* candles the exchange has for the instrument
MaxThreads == 2       \* request threads serving the client at once
MaxWindows == 1       \* minutes that pass
MaxReplyLen == 5     \* tokens of a reply text

(* Program constants *)

Amount == 1                  \* trading_config['amount'] = 0.01 contract
PriceHistoryLimit == 20      \* len(price_history) > 20
SignalHistoryLimit == 30     \* len(signal_history) > 30
BaseUsdtAmount == 100000     \* default base_usdt_amount = 100 USDT
DefaultLeverage == 10        \* lines 324, 417: default leverage
LeverageLimit == 125         \* line 1276: at most 125x
MAX_REQUESTS_PER_MINUTE == 60  \* line 106
Window == 60                 \* line 116: seconds of a window
AmountLimit == 100000        \* line 1273: at most 1000 contracts
BaseLimit == 10000000        \* line 1279: at most 10000 USDT
Epsilon == 10                \* 0.01 USDT, the threshold of a balance change
Day == 720                   \* timedelta(days=1) in ticks of the cadence

(* Input domains *)

Signals == {"BUY", "SELL", "HOLD", "WAIT"}
Confidences == {"HIGH", "LOW"}
UplValues == {-1004, 0, 1004}
InitialBalances == {0, BaseUsdtAmount}
AuditPnls == {20000, -30000, 40000}

Abs(x) == IF x < 0 THEN -x ELSE x

----------------------------------------------------------------------------
(* get_current_position *)

\* the three outcomes: None, the account-info-only dict, the position dict
\* (the payload carries no 'imr', so initial_margin takes its default 0)
NonePos == [kind |-> "none", side |-> "", size |-> 0, position_amt |-> 0,
            unrealized_pnl |-> 0, initial_margin |-> 0,
            total_balance |-> 0, free_balance |-> 0]

AccountInfoOnly(total, free) ==
    [kind |-> "flat", side |-> "", size |-> 0, position_amt |-> 0,
     unrealized_pnl |-> 0, initial_margin |-> 0,
     total_balance |-> total, free_balance |-> free]

\* the variant that reads the sign of the quantity the other way round
PositionDict_SignFlipped(pos, upl, total, free) ==
    [kind |-> "pos", side |-> IF pos > 0 THEN "short" ELSE "long",
     size |-> Abs(pos), position_amt |-> pos,
     unrealized_pnl |-> upl, initial_margin |-> 0,
     total_balance |-> total, free_balance |-> free]

\* lines 596-636: the dict returned for an open position
PositionDict(pos, upl, total, free) ==
    [kind |-> "pos", side |-> IF pos > 0 THEN "long" ELSE "short",
     size |-> Abs(pos), position_amt |-> pos,
     unrealized_pnl |-> upl, initial_margin |-> 0,
     total_balance |-> total, free_balance |-> free]

\* Python truth value of the result: None is false, every dict returned is
\* non-empty and therefore true
Truthy(p) == p.kind # "none"

\* the key 'side' exists only in the position dict
HasSide(p) == p.kind = "pos"

\* A field of the balance payload is a numeric string (its value, >= 0),
\* the empty string, or absent.
Missing == -1
EmptyStr == -2

\* truth value of a payload field: None and '' are false, '0' is true
PyTrue(v) == v >= 0

\* a or b or c
Or3(a, b, c) == IF PyTrue(a) THEN a ELSE IF PyTrue(b) THEN b ELSE c

\* float(v) raises on the empty string
FloatRaises(v) == v = EmptyStr

\* detail.get(key, 0) followed by float()
FloatOrZero(v) == IF v = Missing THEN 0 ELSE v

\* a field of the payload as the exchange renders it: the balance, '0', ''
\* or no such key
Render(how, bal) ==
    CASE how = "value" -> bal
      [] how = "zero" -> 0
      [] how = "empty" -> EmptyStr
      [] OTHER -> Missing

BalanceFields == {"availBal", "availEq", "eq", "bal", "frozenBal", "acctAvailEq", "eqUsd"}

\* the rendering the loop is run against
StandardFormat ==
    [hasDetail |-> TRUE, availBal |-> "value", availEq |-> "absent", eq |-> "value",
     bal |-> "value", frozenBal |-> "zero", acctAvailEq |-> "absent",
     eqUsd |-> "value"]

\* the payload the exchange returns for an account holding bal
BalancePayload(bal) ==
    [hasDetail |-> balance_format.hasDetail,
     availBal |-> Render(balance_format.availBal, bal),
     availEq |-> Render(balance_format.availEq, bal),
     eq |-> Render(balance_format.eq, bal),
     bal |-> Render(balance_format.bal, bal),
     frozenBal |-> Render(balance_format.frozenBal, bal),
     acctAvailEq |-> Render(balance_format.acctAvailEq, bal),
     eqUsd |-> Render(balance_format.eqUsd, bal)]

\* a balance of zero is taken for a failed query
ResolveBalances_ZeroRaises(r) ==
    LET avail_bal == Or3(r.availBal, r.availEq, r.eq)
        total_bal == Or3(r.bal, r.eq, r.frozenBal)
        free0 == IF ~r.hasDetail THEN 0
                 ELSE IF avail_bal # Missing THEN avail_bal ELSE FloatOrZero(r.availBal)
        total0 == IF ~r.hasDetail THEN 0
                  ELSE IF total_bal # Missing THEN total_bal ELSE FloatOrZero(r.bal)
        free1 == IF free0 = 0 /\ PyTrue(r.acctAvailEq) THEN r.acctAvailEq ELSE free0
        total1 == IF total0 = 0 /\ PyTrue(r.eqUsd) THEN r.eqUsd ELSE total0
    IN [raises |-> total1 <= 0, free |-> free1, total |-> total1]

\* lines 564-588: free_balance and total_balance out of the balance payload
ResolveBalances(r) ==
    LET avail_bal == Or3(r.availBal, r.availEq, r.eq)
        total_bal == Or3(r.bal, r.eq, r.frozenBal)
        raises == r.hasDetail /\
                  (\/ FloatRaises(IF avail_bal # Missing THEN avail_bal ELSE r.availBal)
                   \/ FloatRaises(IF total_bal # Missing THEN total_bal ELSE r.bal))
        free0 == IF ~r.hasDetail THEN 0
                 ELSE IF avail_bal # Missing THEN avail_bal ELSE FloatOrZero(r.availBal)
        total0 == IF ~r.hasDetail THEN 0
                  ELSE IF total_bal # Missing THEN total_bal ELSE FloatOrZero(r.bal)
        free1 == IF free0 = 0 /\ PyTrue(r.acctAvailEq) THEN r.acctAvailEq ELSE free0
        total1 == IF total0 = 0 /\ PyTrue(r.eqUsd) THEN r.eqUsd ELSE total0
    IN [raises |-> raises, free |-> free1, total |-> total1]

\* ok = FALSE: a collaborator call raised or returned an empty payload
get_current_position(ok, pos, upl, bal) ==
    LET b == ResolveBalances(BalancePayload(bal)) IN
    IF ~ok \/ b.raises THEN NonePos
    ELSE IF Abs(pos) > 0 THEN PositionDict(pos, upl, b.total, b.free)
    ELSE AccountInfoOnly(b.total, b.free)

----------------------------------------------------------------------------
(* The inference collaborator and the reply parsing of analyze_with_deepseek *)

NoSignal == [kind |-> "none", signal |-> "", confidence |-> "",
             missing |-> {}, timestamp |-> 0]

\* no reply has been received in this cycle
NoReply == [raises |-> FALSE, text |-> << >>, signal |-> "", confidence |-> "",
            missing |-> {}]

\* signal_data: the dict parsed from the reply; missing = required keys absent
SignalDict(s, c, miss, ts) ==
    [kind |-> "dict", signal |-> s, confidence |-> c, missing |-> miss,
     timestamp |-> ts]

\* lines 713-719: the five fields the prompt asks for
RequiredKeys == {"signal", "reason", "stop_loss", "take_profit", "confidence"}

\* The text of a reply is a sequence of tokens: "{" and "}" are the brace
\* characters, "x" is a character of prose, "j" stands for the members of a
\* JSON object (text without braces).  signal, confidence and missing say what
\* the members "j" hold.
Chars == {"{", "}", "x", "j"}

Reply(raises, text, s, c, miss) ==
    [raises |-> raises, text |-> text, signal |-> s, confidence |-> c,
     missing |-> miss]

\* a signal object with prose before and after it
Wrapped == << "x", "{", "j", "}", "x" >>

\* what the call to deepseek_client can produce: an exception, a text with
\* no brace span, a span that is not JSON, or a span that is a JSON object
\* (with all the fields, or with one of them absent)
Replies ==
    {Reply(TRUE, << >>, "", "", {}),
     Reply(FALSE, << "x" >>, "", "", {}),
     Reply(FALSE, << "{", "x", "}" >>, "", "", {})}
    \cup {Reply(FALSE, Wrapped, s, c, {}) : s \in Signals, c \in Confidences}
    \cup {Reply(FALSE, Wrapped, "BUY", "", {"confidence"}),
          Reply(FALSE, Wrapped, "", "HIGH", {"signal"}),
          Reply(FALSE, Wrapped, "BUY", "HIGH", {"stop_loss"})}

\* result.find(c): the first position of c, 0 when there is none
Find(text, c) ==
    IF \E i \in 1..Len(text) : text[i] = c
    THEN CHOOSE i \in 1..Len(text) :
            text[i] = c /\ \A k \in 1..(i - 1) : text[k] # c
    ELSE 0

\* result.rfind(c): the last position of c, 0 when there is none
RFind(text, c) ==
    IF \E i \in 1..Len(text) : text[i] = c
    THEN CHOOSE i \in 1..Len(text) :
            text[i] = c /\ \A k \in (i + 1)..Len(text) : text[k] # c
    ELSE 0

\* lines 733-736: result[start_idx:end_idx], empty when the last '}' comes
\* before the first '{'
JsonStr(text) == SubSeq(text, Find(text, "{"), RFind(text, "}"))

\* json.loads accepts the span: one object, its members or none inside
Loads(json_str) == json_str = << "{", "j", "}" >> \/ json_str = << "{", "}" >>

\* the reply is handed to json.loads as a whole
ParseReply_WholeText(reply, ts) ==
    IF reply.raises \/ ~Loads(reply.text) THEN NoSignal
    ELSE IF reply.text = << "{", "}" >> THEN SignalDict("", "", RequiredKeys, ts)
    ELSE SignalDict(reply.signal, reply.confidence, reply.missing, ts)

\* lines 722-750: the signal_data the reply yields, NoSignal for None
ParseReply(reply, ts) ==
    IF reply.raises THEN NoSignal
    ELSE IF Find(reply.text, "{") = 0 \/ RFind(reply.text, "}") = 0 THEN NoSignal
    ELSE IF ~Loads(JsonStr(reply.text)) THEN NoSignal
    ELSE IF JsonStr(reply.text) = << "{", "}" >>
         THEN SignalDict("", "", RequiredKeys, ts)
    ELSE SignalDict(reply.signal, reply.confidence, reply.missing, ts)

\* a full history drops the entry just appended (pop() for pop(0))
AppendBounded_DropNewest(h, x, limit) ==
    LET h1 == Append(h, x) IN IF Len(h1) > limit THEN h ELSE h1

\* append with the bound of the two histories (append, then pop(0))
AppendBounded(h, x, limit) ==
    LET h1 == Append(h, x) IN IF Len(h1) > limit THEN Tail(h1) ELSE h1

----------------------------------------------------------------------------
(* execute_trade and create_market_order_safe *)

\* the variant that marks every order reduce-only
Order_AlwaysReduce(side, sz, reduce_only) ==
    [side |-> side, sz |-> sz, reduceOnly |-> TRUE]

Order(side, sz, reduce_only) ==
    [side |-> side, sz |-> sz, reduceOnly |-> reduce_only]

NoOrder == [act |-> "none", order |-> Order("", 0, FALSE)]
KeyErrorAct == [act |-> "keyerror", order |-> Order("", 0, FALSE)]
FallThrough == [act |-> "fallthrough", order |-> Order("", 0, FALSE)]
Submit(o) == [act |-> "order", order |-> o]

\* the dry-run switch ignored
DryRun_Ignored(config) == FALSE

\* line 798: the dry-run switch
DryRun(config) == config.test_mode

\* an opposed position is flipped: the order is sized by the configured
\* amount and is not reduce-only
Decide_Flip(signal, current_position, amount) ==
    IF signal = "BUY" THEN
        IF Truthy(current_position) /\ ~HasSide(current_position) THEN KeyErrorAct
        ELSE Submit(Order("buy", amount, FALSE))
    ELSE IF signal = "SELL" THEN
        IF Truthy(current_position) /\ ~HasSide(current_position) THEN KeyErrorAct
        ELSE Submit(Order("sell", amount, FALSE))
    ELSE IF signal = "HOLD" THEN NoOrder
    ELSE FallThrough

\* HOLD without its branch: an open position is closed on HOLD
Decide_HoldCloses(signal, current_position, amount) ==
    IF signal = "BUY" THEN
        IF Truthy(current_position) /\ ~HasSide(current_position) THEN KeyErrorAct
        ELSE IF Truthy(current_position) /\ current_position.side = "short"
        THEN Submit(Order("buy", Abs(current_position.size), TRUE))
        ELSE Submit(Order("buy", amount, FALSE))
    ELSE IF signal = "SELL" \/ signal = "HOLD" THEN
        IF Truthy(current_position) /\ ~HasSide(current_position) THEN KeyErrorAct
        ELSE IF Truthy(current_position) /\ current_position.side = "long"
        THEN Submit(Order("sell", current_position.size, TRUE))
        ELSE Submit(Order("sell", amount, FALSE))
    ELSE FallThrough

\* lines 803-821: the branch execute_trade takes for a signal and the
\* position it read.  current_position['side'] raises KeyError on the
\* account-info-only dict; a None position short-circuits the test.
Decide(signal, current_position, amount) ==
    IF signal = "BUY" THEN
        IF Truthy(current_position) /\ ~HasSide(current_position) THEN KeyErrorAct
        ELSE IF Truthy(current_position) /\ current_position.side = "short"
        THEN Submit(Order("buy", Abs(current_position.size), TRUE))
        ELSE Submit(Order("buy", amount, FALSE))
    ELSE IF signal = "SELL" THEN
        IF Truthy(current_position) /\ ~HasSide(current_position) THEN KeyErrorAct
        ELSE IF Truthy(current_position) /\ current_position.side = "long"
        THEN Submit(Order("sell", current_position.size, TRUE))
        ELSE Submit(Order("sell", amount, FALSE))
    ELSE IF signal = "HOLD" THEN NoOrder
    ELSE FallThrough

\* lines 794-796: the three log lines read these keys of signal_data
LogKeys == {"signal", "confidence", "reason"}

\* the exception of the order call leaves execute_trade
AfterOrderFailure_Propagates == "backoff"

\* line 828: the stage the cycle continues with when the order call raised
AfterOrderFailure == "post"

\* responses of private_post_trade_order as create_market_order_safe sees them
OrderResponses == {"filled", "empty", "rejected", "raise"}

\* the exchange: position after a market order has filled
Signed(o) == IF o.side = "buy" THEN o.sz ELSE -o.sz

Reduces(pos, o) == (pos > 0 /\ o.side = "sell") \/ (pos < 0 /\ o.side = "buy")

FillPos(pos, o) ==
    IF o.reduceOnly
    THEN IF Abs(pos) <= o.sz THEN 0 ELSE pos + Signed(o)
    ELSE pos + Signed(o)

\* the exchange can fill: a reduce-only order needs a position to reduce,
\* any order must leave the position within the account's limit
CanFill(pos, o) ==
    /\ o.sz > 0
    /\ o.reduceOnly => Reduces(pos, o)
    /\ Abs(FillPos(pos, o)) <= MaxPos

----------------------------------------------------------------------------
(* Files *)

\* trade_stats.json: absent, or the four counters
NoStatsFile == [exists |-> FALSE, total_trades |-> 0, winning_trades |-> 0,
                losing_trades |-> 0]

StatsFile(t, w, l) == [exists |-> TRUE, total_trades |-> t,
                       winning_trades |-> w, losing_trades |-> l]

\* equity_curve.json: a list of points; an absent file reads as the empty list
EquityPoint(ts, bal) == [timestamp |-> ts, balance |-> bal]

NoPublication == [event |-> "none", price |-> 0, signal |-> "", confidence |-> "",
                  position |-> NonePos, total_pnl |-> 0]

NoPrice == [price |-> 0, timestamp |-> 0]


\* no response of /api/equity_curve yet
NoStats == [current |-> 0, max_balance |-> 0, max_drawdown |-> 0]

\* the entry of RATE_LIMIT for the client: absent until the first request;
\* id tells the dict objects apart that line 122 and line 124 create
NoEntry == [present |-> FALSE, count |-> 0, last_request |-> 0, id |-> 0]

\* the thread of a request that has not arrived yet (one thread a request)
IdleHandler == [pc |-> "idle", current_time |-> 0, entry |-> 0, loaded |-> 0]

\* the thread of a request that was answered 429, and of one that was let
\* through to the handler
Rejected == [IdleHandler EXCEPT !.pc = "429"]
Passed == [IdleHandler EXCEPT !.pc = "handler"]

\* no request has been made
QuietLimiter ==
    /\ RATE_LIMIT = NoEntry
    /\ handlers = [t \in 1..MaxThreads |-> IdleHandler]
    /\ admitted = [w \in 0..MaxWindows |-> 0]
    /\ clock = 0

----------------------------------------------------------------------------
Init ==
    /\ bot_running = FALSE
    /\ pc = "stopped"
    /\ exchange_ok \in BOOLEAN
    /\ deepseek_ok \in BOOLEAN
    /\ bot_config \in {[test_mode |-> t, base_usdt_amount |-> BaseUsdtAmount,
                        last_updated |-> 0] : t \in BOOLEAN}
    /\ trading_config = [amount |-> Amount, test_mode |-> bot_config.test_mode,
                         base_usdt_amount |-> bot_config.base_usdt_amount]
    /\ price_history = << >>
    /\ signal_history = << >>
    /\ price_data = NoPrice
    /\ signal_data = NoSignal
    /\ ctx_pos = NonePos
    /\ exec_pos = NonePos
    /\ orders = << >>
    /\ order_result = "none"
    /\ published = NoPublication
    /\ exPos \in -MaxPos..MaxPos
    /\ exBal \in InitialBalances
    /\ exBal = 0 => exPos = 0       \* no margin, no position
    /\ exUpl = 0
    /\ trade_stats = NoStatsFile
    \* a funded account has its inception point, an unfunded one has no curve
    /\ equity_curve = IF exBal = 0 THEN << >>
                      ELSE << EquityPoint(0, BaseUsdtAmount) >>
    /\ cycle = 0
    /\ prev_close = "NONE"
    /\ moves = 0
    /\ config_reply = "none"
    /\ exLever = 0
    /\ candles = << >>
    /\ QuietLimiter
    /\ response = NoReply
    /\ at_start = [trading_config |-> trading_config, price_history |-> << >>,
                   signal_history |-> << >>]
    /\ trade_audit = << >>
    /\ stats = NoStats
    /\ observed = << >>
    /\ balance_format = StandardFormat
    /\ answered = FALSE

----------------------------------------------------------------------------
(* The thread of trading_bot *)

loopLocals == << price_data, signal_data, ctx_pos, exec_pos, orders, order_result,
                 response, answered >>
histories == << price_history, signal_history >>
exchangeState == << exPos, exBal, exUpl >>
files == << trade_stats, equity_curve, bot_config >>
globals == << exchange_ok, deepseek_ok, trading_config, moves >>
limiter == << RATE_LIMIT, handlers, admitted, clock >>
aux == << trade_audit, stats, observed, balance_format, config_reply, exLever,
         candles, limiter >>

\* a caller sets bot_running and runs trading_bot in a thread
StartBot ==
    /\ pc = "stopped"
    /\ ~bot_running
    /\ bot_running' = TRUE
    /\ pc' = "loop_top"
    /\ UNCHANGED << globals, aux, histories, loopLocals, published, exchangeState,
                    files, cycle, at_start, prev_close >>

StopBot ==
    /\ bot_running
    /\ bot_running' = FALSE
    /\ UNCHANGED << pc, globals, aux, histories, loopLocals, published,
                    exchangeState, files, cycle, at_start, prev_close >>

\* what a cycle finds when it starts
CycleStart == [trading_config |-> trading_config,
               price_history |-> price_history,
               signal_history |-> signal_history]

\* the variant whose loop test ignores the flag
LoopTop_IgnoresFlag ==
    /\ pc = "loop_top"
    /\ cycle < MaxCycles
    /\ cycle' = cycle + 1
    /\ pc' = "snapshot"
    /\ at_start' = CycleStart
    /\ UNCHANGED << bot_running, globals, aux, histories, loopLocals, published,
                    exchangeState, files, prev_close >>

\* line 835: while bot_running
LoopTop ==
    /\ pc = "loop_top"
    /\ IF bot_running
       THEN /\ cycle < MaxCycles
            /\ cycle' = cycle + 1
            /\ pc' = "snapshot"
       ELSE /\ pc' = "stopped"
            /\ cycle' = cycle
    /\ at_start' = IF bot_running THEN CycleStart ELSE at_start
    /\ UNCHANGED << bot_running, globals, aux, histories, loopLocals, published,
                    exchangeState, files, prev_close >>

\* lines 840-843: get_btc_ohlcv, None when the exchange is absent or fails
GetSnapshot ==
    /\ pc = "snapshot"
    /\ \E ok \in BOOLEAN :
         IF exchange_ok /\ ok
         THEN /\ price_data' = [price |-> 100 + cycle, timestamp |-> cycle]
              /\ pc' = "analyze"
         ELSE /\ price_data' = NoPrice
              /\ pc' = "backoff"
    /\ UNCHANGED << bot_running, globals, aux, histories, signal_data, ctx_pos,
                    exec_pos, orders, order_result, response, answered, published, exchangeState,
                    files, cycle, at_start, prev_close >>

\* lines 648-685: analyze_with_deepseek up to the prompt.  The position text
\* reads current_pos['side'] whenever current_pos is true, which raises
\* KeyError on the account-info-only dict; the exception leaves
\* analyze_with_deepseek and is caught at line 927.
AnalyzeContext ==
    /\ pc = "analyze"
    /\ IF ~deepseek_ok
       THEN /\ pc' = "backoff"
            /\ UNCHANGED << price_history, observed, ctx_pos, answered >>
       ELSE /\ price_history' = AppendBounded(price_history, price_data, PriceHistoryLimit)
            /\ observed' = Append(observed, price_data)
            /\ \E ok \in BOOLEAN :
                 /\ answered' = (exchange_ok /\ ok)
                 /\ ctx_pos' = get_current_position(answered', exPos, exUpl, exBal)
            /\ pc' = IF Truthy(ctx_pos') /\ ~HasSide(ctx_pos')
                     THEN "backoff" ELSE "inference"
    /\ UNCHANGED << bot_running, globals, trade_audit, stats, balance_format, config_reply, exLever, candles, limiter,
                    signal_history, price_data, signal_data,
                    exec_pos, orders, order_result, response, published, exchangeState,
                    files, cycle, at_start, prev_close >>

\* lines 722-750: the inference collaborator answers with reply, which is
\* parsed and recorded
InferenceWith(reply) ==
    /\ pc = "inference"
    /\ LET sd == ParseReply(reply, price_data.timestamp) IN
         IF sd.kind = "dict"
         THEN /\ signal_data' = sd
              /\ signal_history' = AppendBounded(signal_history, sd.timestamp, SignalHistoryLimit)
              /\ pc' = "execute"
         ELSE /\ signal_data' = NoSignal
              /\ signal_history' = signal_history
              /\ pc' = "backoff"
    /\ response' = IF reply.raises THEN NoReply ELSE reply
    /\ UNCHANGED << bot_running, globals, aux, price_history, price_data, ctx_pos,
                    exec_pos, orders, order_result, answered, published,
                    exchangeState, files, cycle, at_start, prev_close >>

Inference == \E reply \in Replies : InferenceWith(reply)

\* the exchange account after the order has filled: closing the position
\* realizes its unrealized PnL into the balance
FillAccount(pos, bal, upl, o) ==
    LET np == FillPos(pos, o) IN
    IF np = 0 /\ pos # 0
    THEN [pos |-> 0, bal |-> bal + upl, upl |-> 0]
    ELSE [pos |-> np, bal |-> bal, upl |-> upl]

\* lines 786-829: execute_trade with the order call it makes
ExecuteTrade ==
    /\ pc = "execute"
    /\ IF ~exchange_ok
       THEN /\ pc' = "post"
            /\ UNCHANGED << exec_pos, orders, order_result, exchangeState >>
       ELSE \E ok \in BOOLEAN, resp \in OrderResponses :
            LET cp == get_current_position(ok, exPos, exUpl, exBal)
                d == Decide(signal_data.signal, cp, trading_config.amount)
                acct == FillAccount(exPos, exBal, exUpl, d.order)
            IN
            /\ exec_pos' = cp
            /\ IF LogKeys \cap signal_data.missing # {}
               THEN \* KeyError in the log lines, caught at line 927
                    /\ pc' = "backoff"
                    /\ UNCHANGED << orders, order_result, exchangeState >>
               ELSE IF DryRun(trading_config) \/ d.act # "order"
               THEN /\ pc' = "post"
                    /\ UNCHANGED << orders, order_result, exchangeState >>
               ELSE /\ orders' = Append(orders, d.order)
                    /\ order_result' = resp
                    /\ resp = "filled" => CanFill(exPos, d.order)
                    /\ IF resp = "filled"
                       THEN /\ exPos' = acct.pos
                            /\ exBal' = acct.bal
                            /\ exUpl' = acct.upl
                            /\ pc' = "post"
                       ELSE /\ UNCHANGED exchangeState
                            /\ pc' = AfterOrderFailure
    /\ UNCHANGED << bot_running, globals, aux, histories, price_data, signal_data,
                    ctx_pos, response, answered, published, files, cycle, at_start,
                    prev_close >>

\* lines 860-868: the balance out of the position read after the trade
BalanceOfPosition(p) ==
    IF ~Truthy(p) THEN 0
    ELSE IF p.total_balance = 0
         THEN p.free_balance + p.initial_margin + p.unrealized_pnl
         ELSE p.total_balance

\* lines 873-885: the balance out of a direct balance query
BalanceOfQuery(ok, r) ==
    IF ~ok THEN 0
    ELSE IF PyTrue(r.eqUsd) THEN r.eqUsd
    ELSE IF PyTrue(r.acctAvailEq) THEN r.acctAvailEq
    ELSE 0

\* lines 890-903: the inception balance, from the equity file or the config
InitialBalance(equity_data, config) ==
    LET fromFile == IF Len(equity_data) > 0 THEN equity_data[1].balance ELSE 0
    IN IF fromFile = 0 THEN config.base_usdt_amount ELSE fromFile

\* the variant that publishes the position read before the signal instead of
\* reading the exchange again
PostTrade_Merged ==
    /\ pc = "post"
    /\ \E ok \in BOOLEAN, ok2 \in BOOLEAN :
         LET current_position == ctx_pos
             b0 == BalanceOfPosition(current_position)
             current_balance == IF b0 = 0
                                THEN BalanceOfQuery(exchange_ok /\ ok2, BalancePayload(exBal))
                                ELSE b0
             initial_balance == InitialBalance(equity_curve, bot_config)
         IN published' = [event |-> "update_data",
                          price |-> price_data.price,
                          signal |-> signal_data.signal,
                          confidence |-> signal_data.confidence,
                          position |-> current_position,
                          total_pnl |-> current_balance - initial_balance]
    /\ pc' = "sleep"
    /\ UNCHANGED << bot_running, globals, aux, histories, loopLocals, exchangeState,
                    files, cycle, at_start, prev_close >>

\* lines 854-925: re-read the position, compute the total PnL, publish
PostTrade ==
    /\ pc = "post"
    /\ \E ok \in BOOLEAN, ok2 \in BOOLEAN :
         LET current_position == get_current_position(exchange_ok /\ ok, exPos, exUpl, exBal)
             b0 == BalanceOfPosition(current_position)
             current_balance == IF b0 = 0
                                THEN BalanceOfQuery(exchange_ok /\ ok2, BalancePayload(exBal))
                                ELSE b0
             initial_balance == InitialBalance(equity_curve, bot_config)
         IN published' = [event |-> "update_data",
                          price |-> price_data.price,
                          signal |-> signal_data.signal,
                          confidence |-> signal_data.confidence,
                          position |-> current_position,
                          total_pnl |-> current_balance - initial_balance]
    /\ pc' = "sleep"
    /\ UNCHANGED << bot_running, globals, aux, histories, loopLocals, exchangeState,
                    files, cycle, at_start, prev_close >>

\* the signal of this cycle if every call of the cycle succeeded and its
\* order was a reduce-only order that filled
ClosedBy ==
    IF /\ orders # << >> /\ order_result = "filled" /\ orders[1].reduceOnly
       /\ ctx_pos.kind = "pos" /\ exec_pos.kind = "pos"
       /\ published.event = "update_data" /\ published.position.kind # "none"
    THEN signal_data.signal ELSE "NONE"

\* the locals of the cycle are dead once the cycle has ended
EndOfCycle ==
    /\ price_data' = NoPrice
    /\ signal_data' = NoSignal
    /\ ctx_pos' = NonePos
    /\ exec_pos' = NonePos
    /\ orders' = << >>
    /\ order_result' = "none"
    /\ response' = NoReply
    /\ answered' = FALSE
    /\ published' = NoPublication

\* line 925: time.sleep(refresh_interval * 60)
Sleep ==
    /\ pc = "sleep"
    /\ pc' = "loop_top"
    /\ prev_close' = ClosedBy
    /\ EndOfCycle
    /\ UNCHANGED << bot_running, globals, aux, histories, exchangeState, files, cycle, at_start >>

\* the variant in which a failed stage ends the loop
Backoff_Terminates ==
    /\ pc = "backoff"
    /\ pc' = "stopped"
    /\ prev_close' = ClosedBy
    /\ EndOfCycle
    /\ UNCHANGED << bot_running, globals, aux, histories, exchangeState, files, cycle, at_start >>

\* lines 842, 848, 929: time.sleep(10)
Backoff ==
    /\ pc = "backoff"
    /\ pc' = "loop_top"
    /\ prev_close' = ClosedBy
    /\ EndOfCycle
    /\ UNCHANGED << bot_running, globals, aux, histories, exchangeState, files, cycle, at_start >>

----------------------------------------------------------------------------
(* The exchange account outside the loop *)

\* the mark price moves: the unrealized PnL of the open position changes
MarketMove ==
    /\ moves < MaxMoves
    /\ moves' = moves + 1
    /\ exPos # 0
    /\ \E u \in UplValues : u # exUpl /\ exBal + u >= 0 /\ exUpl' = u
    /\ UNCHANGED << bot_running, pc, exchange_ok, deepseek_ok, trading_config, aux,
                    histories, loopLocals, published, exPos, exBal, files, cycle,
                    at_start, prev_close >>

\* the position is closed from outside the loop (a stop order, a liquidation,
\* a manual close), which realizes its PnL
OutsideClose ==
    /\ moves < MaxMoves
    /\ moves' = moves + 1
    /\ exPos # 0
    /\ exPos' = 0
    /\ exBal' = exBal + exUpl
    /\ exUpl' = 0
    /\ UNCHANGED << bot_running, pc, exchange_ok, deepseek_ok, trading_config, aux,
                    histories, loopLocals, published, files, cycle, at_start, prev_close >>

----------------------------------------------------------------------------
(* Request handlers *)

\* round(x, 2) on an amount in units of 0.001
Round2(x) == LET r == x % 10 IN IF r < 5 THEN x - r ELSE x - r + 10

\* lines 190-209, called at line 1000: load_trade_stats creates the file
get_status ==
    /\ trade_stats' = IF trade_stats.exists THEN trade_stats ELSE StatsFile(0, 0, 0)
    /\ trade_stats' # trade_stats
    /\ UNCHANGED << bot_running, pc, globals, aux, histories, loopLocals, published,
                    exchangeState, equity_curve, bot_config, cycle, at_start, prev_close >>

\* lines 1674-1684, 1768-1783: the timestamp given to the inception point
InitialTimestamp(config, now) ==
    IF config.last_updated # Missing THEN config.last_updated ELSE now - Day

\* lines 1707-1745: an empty curve is initialised from the configured amount
InitCurve(actual_balance, config, now) ==
    IF actual_balance > 0
    THEN << EquityPoint(InitialTimestamp(config, now), Round2(config.base_usdt_amount)) >>
         \o (IF Abs(actual_balance - config.base_usdt_amount) > Epsilon
             THEN << EquityPoint(now, Round2(actual_balance)) >> ELSE << >>)
    ELSE << >>

\* lines 1761-1800: a curve of one point gets the current balance appended
AppendCurrent(equity_data, actual_account_balance, config, now) ==
    IF /\ Len(equity_data) = 1
       /\ actual_account_balance > 0
       /\ Abs(Round2(actual_account_balance) - equity_data[1].balance) > Epsilon
    THEN << [equity_data[1] EXCEPT !.timestamp = InitialTimestamp(config, now)],
            EquityPoint(now, Round2(actual_account_balance)) >>
    ELSE equity_data

\* an entry of trade_audit.json as get_equity_curve reads it: 'executed',
\* whether it closed the position (lines 1649-1653), its 'timestamp' and the
\* 'unrealized_pnl' of its position_after
AuditItem(executed, closed, ts, pnl) ==
    [executed |-> executed, closed |-> closed, timestamp |-> ts, realized_pnl |-> pnl]

\* lines 1643-1663: one point for every executed closing entry of the log
RECURSIVE AuditPoints(_, _)
AuditPoints(audit_data, current_balance) ==
    IF audit_data = << >> THEN << >>
    ELSE LET item == Head(audit_data) IN
         IF item.executed /\ item.closed
         THEN << EquityPoint(item.timestamp,
                             Round2(current_balance + item.realized_pnl)) >>
              \o AuditPoints(Tail(audit_data), current_balance + item.realized_pnl)
         ELSE AuditPoints(Tail(audit_data), current_balance)

\* lines 1626-1663: the curve rebuilt from the audit log; its first point is
\* stamped datetime.now()
RebuildFromAudit(audit_data, config, now) ==
    << EquityPoint(now, config.base_usdt_amount) >>
    \o AuditPoints(audit_data, config.base_usdt_amount)

\* (a - b) / b * 100 rounded to two decimals, in hundredths of a percent
\* (whole percents first, then the two decimals of the remainder)
PercentOf(a, b) ==
    LET whole == (100 * (a - b)) \div b
        rest == 100 * (a - b) - whole * b
    IN 100 * whole + (200 * rest + b) \div (2 * b)

\* the running maximum is never raised: every fall is measured from the
\* first balance
RECURSIVE DrawdownLoop_FromInitial(_, _, _)
DrawdownLoop_FromInitial(balances, max_balance_seen, max_drawdown) ==
    IF balances = << >>
    THEN [max_balance_seen |-> max_balance_seen, max_drawdown |-> max_drawdown]
    ELSE LET balance == Head(balances)
             drawdown == IF max_balance_seen > 0
                         THEN PercentOf(balance, max_balance_seen) ELSE 0
         IN DrawdownLoop_FromInitial(Tail(balances), max_balance_seen,
                         IF drawdown < max_drawdown THEN drawdown ELSE max_drawdown)

\* lines 1824-1837: the loop over the balances, the running maximum and the
\* most negative drawdown seen so far
RECURSIVE DrawdownLoop(_, _, _)
DrawdownLoop(balances, max_balance_seen, max_drawdown) ==
    IF balances = << >>
    THEN [max_balance_seen |-> max_balance_seen, max_drawdown |-> max_drawdown]
    ELSE LET balance == Head(balances)
             m == IF balance > max_balance_seen THEN balance ELSE max_balance_seen
             drawdown == IF m > 0 THEN PercentOf(balance, m) ELSE 0
         IN DrawdownLoop(Tail(balances), m,
                         IF drawdown < max_drawdown THEN drawdown ELSE max_drawdown)

Balances(equity_data) == [i \in 1..Len(equity_data) |-> equity_data[i].balance]

\* lines 1805-1868: the 'stats' of the response
EquityStats(equity_data, current_position, actual_account_balance, config) ==
    LET upl == IF Truthy(current_position) THEN current_position.unrealized_pnl ELSE 0
    IN
    IF Len(equity_data) > 0
    THEN LET base_current == equity_data[Len(equity_data)].balance
             current == IF actual_account_balance > 0 THEN actual_account_balance
                        ELSE IF upl # 0 THEN base_current + upl
                        ELSE base_current
             r == DrawdownLoop(Balances(equity_data) \o << current >>,
                               equity_data[1].balance, 0)
         IN [current |-> current, max_balance |-> r.max_balance_seen,
             max_drawdown |-> r.max_drawdown]
    ELSE LET initial == config.base_usdt_amount
             current == IF actual_account_balance > 0 THEN actual_account_balance
                        ELSE IF upl # 0 THEN initial + upl ELSE initial
         IN [current |-> current, max_balance |-> current, max_drawdown |-> 0]

\* lines 1603-1888: get_equity_curve, the only writer of equity_curve.json.
\* A missing trade_audit.json and an empty one take the same path.
get_equity_curve ==
    /\ \E ok1 \in BOOLEAN, ok2 \in BOOLEAN :
         LET temp_position == get_current_position(exchange_ok /\ ok1, exPos, exUpl, exBal)
             actual_balance == IF Truthy(temp_position)
                               THEN temp_position.total_balance ELSE 0
             loaded == IF equity_curve # << >> THEN equity_curve
                       ELSE IF trade_audit # << >>
                       THEN RebuildFromAudit(trade_audit, bot_config, cycle)
                       ELSE InitCurve(actual_balance, bot_config, cycle)
             current_position == get_current_position(exchange_ok /\ ok2, exPos, exUpl, exBal)
             actual_account_balance == BalanceOfPosition(current_position)
             equity_data == AppendCurrent(loaded, actual_account_balance, bot_config, cycle)
         IN /\ equity_curve' = equity_data
            /\ stats' = EquityStats(equity_data, current_position,
                                    actual_account_balance, bot_config)
    /\ UNCHANGED << bot_running, pc, globals, histories, loopLocals, published,
                    exchangeState, trade_stats, bot_config, cycle, at_start,
                    prev_close, trade_audit, observed, balance_format, config_reply, exLever,
                    candles, limiter >>

----------------------------------------------------------------------------
(* The loop of trading_bot, its controller and the market *)

Next ==
    \/ StartBot
    \/ StopBot
    \/ LoopTop
    \/ GetSnapshot
    \/ AnalyzeContext
    \/ Inference
    \/ ExecuteTrade
    \/ PostTrade
    \/ Sleep
    \/ Backoff
    \/ MarketMove

Spec == Init /\ [][Next]_vars

----------------------------------------------------------------------------
(* The ledger: /api/equity_curve with the audit log, the account and the clock *)

\* the loop is not running and holds nothing
Idle ==
    /\ bot_running = FALSE
    /\ pc = "stopped"
    /\ price_history = << >>
    /\ signal_history = << >>
    /\ price_data = NoPrice
    /\ signal_data = NoSignal
    /\ ctx_pos = NonePos
    /\ exec_pos = NonePos
    /\ orders = << >>
    /\ order_result = "none"
    /\ published = NoPublication
    /\ response = NoReply
    /\ prev_close = "NONE"
    /\ at_start = [trading_config |-> trading_config, price_history |-> << >>,
                   signal_history |-> << >>]
    /\ observed = << >>

\* the entries an audit log is made of: closing trades with their realized
\* PnL, an executed opening trade, a trade that was not executed
AuditKinds ==
    {[executed |-> TRUE, closed |-> TRUE, pnl |-> p] : p \in AuditPnls}
    \cup {[executed |-> TRUE, closed |-> FALSE, pnl |-> 0],
          [executed |-> FALSE, closed |-> FALSE, pnl |-> 0]}

\* audit logs, written in the order of their timestamps 1, 2, ...
AuditLogs ==
    UNION {{[i \in 1..n |-> AuditItem(f[i].executed, f[i].closed, i, f[i].pnl)] :
               f \in [1..n -> AuditKinds]} : n \in 0..MaxAudit}

InitLedger ==
    /\ exchange_ok = TRUE
    /\ deepseek_ok = TRUE
    /\ bot_config \in {[test_mode |-> TRUE, base_usdt_amount |-> BaseUsdtAmount,
                        last_updated |-> t] : t \in {Missing, 0}}
    /\ trading_config = [amount |-> Amount, test_mode |-> bot_config.test_mode,
                         base_usdt_amount |-> bot_config.base_usdt_amount]
    /\ exPos \in {-Amount, 0, Amount}
    /\ exBal \in {0, BaseUsdtAmount, BaseUsdtAmount + 30000}
    /\ exBal = 0 => exPos = 0
    /\ exUpl = 0
    /\ trade_stats = NoStatsFile
    /\ equity_curve = << >>
    /\ trade_audit \in AuditLogs
    /\ stats = NoStats
    /\ balance_format = StandardFormat
    /\ answered = FALSE
    /\ cycle = MaxAudit + 1         \* the log was written before the first request
    /\ moves = 0
    /\ config_reply = "none"
    /\ exLever = 0
    /\ candles = << >>
    /\ QuietLimiter
    /\ Idle

NextLedger ==
    \/ get_equity_curve
    \/ MarketMove
    \/ OutsideClose

SpecLedger == InitLedger /\ [][NextLedger]_vars

----------------------------------------------------------------------------
(* The price history over a long run: snapshots recorded one after another *)

InitHistory ==
    /\ exchange_ok = TRUE
    /\ deepseek_ok = TRUE
    /\ bot_config = [test_mode |-> TRUE, base_usdt_amount |-> BaseUsdtAmount,
                     last_updated |-> 0]
    /\ trading_config = [amount |-> Amount, test_mode |-> bot_config.test_mode,
                         base_usdt_amount |-> bot_config.base_usdt_amount]
    /\ exPos = 0
    /\ exBal = BaseUsdtAmount
    /\ exUpl = 0
    /\ trade_stats = NoStatsFile
    /\ equity_curve = << >>
    /\ trade_audit = << >>
    /\ stats = NoStats
    /\ balance_format = StandardFormat
    /\ answered = FALSE
    /\ cycle = 0
    /\ moves = 0
    /\ config_reply = "none"
    /\ exLever = 0
    /\ candles = << >>
    /\ QuietLimiter
    /\ Idle

\* lines 839-840 and 653-659: the snapshot of this cycle is fetched and
\* analyze_with_deepseek records it
RecordPrice ==
    /\ deepseek_ok
    /\ Len(observed) < MaxFetches
    /\ cycle' = cycle + 1
    /\ LET snapshot == [price |-> 100 + cycle', timestamp |-> cycle'] IN
       /\ price_history' = AppendBounded(price_history, snapshot, PriceHistoryLimit)
       /\ observed' = Append(observed, snapshot)
    /\ UNCHANGED << bot_running, pc, globals, trade_audit, stats, balance_format, config_reply, exLever, candles, limiter,
                    signal_history, loopLocals, published, exchangeState, files,
                    at_start, prev_close >>

\* lines 840-843: the fetch of this cycle fails and nothing is recorded
SkipFetch ==
    /\ cycle - Len(observed) < MaxSkips
    /\ Len(observed) < MaxFetches
    /\ cycle' = cycle + 1
    /\ UNCHANGED << bot_running, pc, globals, aux, histories, loopLocals, published,
                    exchangeState, files, at_start, prev_close >>

NextHistory ==
    \/ RecordPrice
    \/ SkipFetch

SpecHistory == InitHistory /\ [][NextHistory]_vars

----------------------------------------------------------------------------
(* The reply parsing: one cycle waiting for the inference reply, any text *)

\* every text of at most MaxReplyLen tokens, its object being a full signal
ReplyTexts == UNION {[1..n -> Chars] : n \in 0..MaxReplyLen}

AnyReply == {Reply(FALSE, t, "BUY", "HIGH", {}) : t \in ReplyTexts}

InitParse ==
    /\ bot_running = TRUE
    /\ pc = "inference"
    /\ exchange_ok = TRUE
    /\ deepseek_ok = TRUE
    /\ bot_config = [test_mode |-> FALSE, base_usdt_amount |-> BaseUsdtAmount,
                     last_updated |-> 0]
    /\ trading_config = [amount |-> Amount, test_mode |-> bot_config.test_mode,
                         base_usdt_amount |-> bot_config.base_usdt_amount]
    /\ cycle = 1
    /\ price_data = [price |-> 100 + cycle, timestamp |-> cycle]
    /\ price_history = << price_data >>
    /\ observed = << price_data >>
    /\ signal_history = << >>
    /\ signal_data = NoSignal
    /\ exPos = MaxPos
    /\ exBal = BaseUsdtAmount
    /\ exUpl = 0
    /\ balance_format = StandardFormat
    /\ answered = TRUE
    /\ ctx_pos = get_current_position(TRUE, exPos, exUpl, exBal)
    /\ exec_pos = NonePos
    /\ orders = << >>
    /\ order_result = "none"
    /\ published = NoPublication
    /\ response = NoReply
    /\ prev_close = "NONE"
    /\ at_start = [trading_config |-> trading_config, price_history |-> << >>,
                   signal_history |-> << >>]
    /\ trade_stats = NoStatsFile
    /\ equity_curve = << EquityPoint(0, BaseUsdtAmount) >>
    /\ trade_audit = << >>
    /\ stats = NoStats
    /\ moves = 0
    /\ config_reply = "none"
    /\ exLever = 0
    /\ candles = << >>
    /\ QuietLimiter

InferenceAny == \E reply \in AnyReply : InferenceWith(reply)

NextParse ==
    \/ InferenceAny
    \/ Backoff

SpecParse == InitParse /\ [][NextParse]_vars

----------------------------------------------------------------------------
(* The position read: one cycle about to read the account, any rendering *)

\* the renderings of the balance payload
Formats ==
    [hasDetail : BOOLEAN,
     availBal : {"value", "empty", "absent"},
     availEq : {"value", "empty", "absent"},
     eq : {"value", "empty", "absent"},
     bal : {"value", "empty", "absent"},
     frozenBal : {"zero", "absent"},
     acctAvailEq : {"value", "absent"},
     eqUsd : {"value", "absent"}]

InitOracle ==
    /\ bot_running = TRUE
    /\ pc = "analyze"
    /\ exchange_ok = TRUE
    /\ deepseek_ok = TRUE
    /\ bot_config = [test_mode |-> FALSE, base_usdt_amount |-> BaseUsdtAmount,
                     last_updated |-> 0]
    /\ trading_config = [amount |-> Amount, test_mode |-> bot_config.test_mode,
                         base_usdt_amount |-> bot_config.base_usdt_amount]
    /\ cycle = 1
    /\ price_data = [price |-> 100 + cycle, timestamp |-> cycle]
    /\ price_history = << >>
    /\ observed = << >>
    /\ signal_history = << >>
    /\ signal_data = NoSignal
    /\ exPos \in {-Amount, 0, Amount}
    /\ exBal \in InitialBalances
    /\ exBal = 0 => exPos = 0
    /\ exUpl = 0
    /\ balance_format \in Formats
    /\ answered = FALSE
    /\ ctx_pos = NonePos
    /\ exec_pos = NonePos
    /\ orders = << >>
    /\ order_result = "none"
    /\ published = NoPublication
    /\ response = NoReply
    /\ prev_close = "NONE"
    /\ at_start = [trading_config |-> trading_config, price_history |-> << >>,
                   signal_history |-> << >>]
    /\ trade_stats = NoStatsFile
    /\ equity_curve = << >>
    /\ trade_audit = << >>
    /\ stats = NoStats
    /\ moves = 0
    /\ config_reply = "none"
    /\ exLever = 0
    /\ candles = << >>
    /\ QuietLimiter

NextOracle ==
    \/ AnalyzeContext
    \/ Backoff

SpecOracle == InitOracle /\ [][NextOracle]_vars

----------------------------------------------------------------------------
(* POST /api/update_config beside a running cycle *)

\* one step of the loop thread
LoopStep ==
    \/ LoopTop
    \/ GetSnapshot
    \/ AnalyzeContext
    \/ Inference
    \/ ExecuteTrade
    \/ PostTrade
    \/ Sleep
    \/ Backoff

\* line 1267
valid_keys == {"symbol", "amount", "leverage", "timeframe", "test_mode",
               "base_usdt_amount"}

\* the bodies of the requests
Requests ==
    {<< >>,
     [refresh_interval |-> 1],
     [amount |-> 0],
     [amount |-> MaxPos],
     [test_mode |-> TRUE],
     [test_mode |-> FALSE],
     [amount |-> MaxPos, test_mode |-> FALSE],
     [base_usdt_amount |-> 0],
     [base_usdt_amount |-> BaseUsdtAmount]}

\* lines 1273-1280: the range checks of amount, leverage and
\* base_usdt_amount
OutOfRange(data) ==
    \/ "amount" \in DOMAIN data /\ (data.amount <= 0 \/ data.amount > AmountLimit)
    \/ "leverage" \in DOMAIN data
       /\ (data.leverage < 1 \/ data.leverage > LeverageLimit)
    \/ "base_usdt_amount" \in DOMAIN data
       /\ (data.base_usdt_amount <= 0 \/ data.base_usdt_amount > BaseLimit)

\* dict.update
Update(config, data) ==
    [k \in DOMAIN config \cup DOMAIN data |->
        IF k \in DOMAIN data THEN data[k] ELSE config[k]]

\* lines 1286-1294: the keys of the request that bot_config.json keeps
Saved == {"test_mode", "leverage", "timeframe", "base_usdt_amount"}

\* lines 1255-1308: update_config for the request body data.  The global dict
\* is updated in place at line 1283, whatever the loop is doing; the file is
\* saved afterwards, and saved tells whether save_bot_config succeeded.
HandleUpdate(data, saved) ==
    /\ IF data = << >> \/ DOMAIN data \ valid_keys # {} \/ OutOfRange(data)
       THEN /\ config_reply' = "400"
            /\ UNCHANGED << trading_config, bot_config >>
       ELSE /\ trading_config' = Update(trading_config, data)
            /\ bot_config' =
                 IF saved
                 THEN [Update(bot_config,
                              [k \in DOMAIN data \cap Saved |-> data[k]])
                         EXCEPT !.last_updated = cycle]
                 ELSE bot_config
            /\ config_reply' = IF saved THEN "200" ELSE "500"
    /\ UNCHANGED << bot_running, pc, exchange_ok, deepseek_ok, moves, trade_audit,
                    stats, observed, balance_format, exLever, candles, limiter, histories,
                    loopLocals,
                    published, exchangeState, trade_stats, equity_curve, cycle,
                    at_start, prev_close >>

update_config == \E data \in Requests, saved \in BOOLEAN : HandleUpdate(data, saved)

InitUpdate ==
    /\ bot_running = TRUE
    /\ pc = "loop_top"
    /\ exchange_ok = TRUE
    /\ deepseek_ok = TRUE
    /\ bot_config \in {[test_mode |-> t, base_usdt_amount |-> BaseUsdtAmount,
                        last_updated |-> 0] : t \in BOOLEAN}
    /\ trading_config = [amount |-> Amount, test_mode |-> bot_config.test_mode,
                         base_usdt_amount |-> bot_config.base_usdt_amount]
    /\ cycle = MaxCycles - 1
    /\ price_data = NoPrice
    /\ price_history = << >>
    /\ observed = << >>
    /\ signal_history = << >>
    /\ signal_data = NoSignal
    /\ exPos \in {-Amount, Amount}
    /\ exBal = BaseUsdtAmount
    /\ exUpl = 0
    /\ balance_format = StandardFormat
    /\ answered = FALSE
    /\ ctx_pos = NonePos
    /\ exec_pos = NonePos
    /\ orders = << >>
    /\ order_result = "none"
    /\ published = NoPublication
    /\ response = NoReply
    /\ prev_close = "NONE"
    /\ at_start = CycleStart
    /\ trade_stats = NoStatsFile
    /\ equity_curve = << EquityPoint(0, BaseUsdtAmount) >>
    /\ trade_audit = << >>
    /\ stats = NoStats
    /\ moves = 0
    /\ config_reply = "none"
    /\ exLever = 0
    /\ candles = << >>
    /\ QuietLimiter

\* the replies that carry a complete signal of high confidence
SignalReplies ==
    {reply \in Replies : /\ ~reply.raises
                         /\ reply.text = Wrapped
                         /\ reply.missing = {}
                         /\ reply.confidence = "HIGH"}

InferenceSignal == \E reply \in SignalReplies : InferenceWith(reply)

NextUpdate ==
    \/ LoopTop
    \/ GetSnapshot
    \/ AnalyzeContext
    \/ InferenceSignal
    \/ ExecuteTrade
    \/ PostTrade
    \/ Sleep
    \/ Backoff
    \/ update_config

SpecUpdate == InitUpdate /\ [][NextUpdate]_vars

----------------------------------------------------------------------------
(* POST /api/update_config alone: the editor of the configuration *)

\* the cadences get_btc_ohlcv knows (bar_map, lines 487-492)
Timeframes == {"15m", "1h", "4h", "1d"}

\* requests of one key, inside and outside the documented ranges
EditorRequests ==
    {<< >>, [refresh_interval |-> 1]}
    \cup {[leverage |-> v] : v \in {0, 1, MaxLeverage, LeverageLimit, LeverageLimit + 1}}
    \cup {[timeframe |-> t] : t \in Timeframes \cup {"2h"}}
    \cup {[base_usdt_amount |-> b] : b \in {0, BaseUsdtAmount, BaseLimit + 1}}
    \cup {[test_mode |-> t] : t \in BOOLEAN}

edit_config ==
    \E data \in EditorRequests, saved \in BOOLEAN : HandleUpdate(data, saved)

InitEditor ==
    /\ bot_running = FALSE
    /\ pc = "stopped"
    /\ exchange_ok = TRUE
    /\ deepseek_ok = TRUE
    /\ bot_config = [test_mode |-> TRUE, leverage |-> DefaultLeverage,
                     timeframe |-> "15m", base_usdt_amount |-> BaseUsdtAmount,
                     last_updated |-> 0]
    /\ trading_config = [amount |-> Amount, leverage |-> bot_config.leverage,
                         timeframe |-> bot_config.timeframe,
                         test_mode |-> bot_config.test_mode,
                         base_usdt_amount |-> bot_config.base_usdt_amount]
    /\ cycle = 0
    /\ price_data = NoPrice
    /\ price_history = << >>
    /\ observed = << >>
    /\ signal_history = << >>
    /\ signal_data = NoSignal
    /\ exPos = 0
    /\ exBal = BaseUsdtAmount
    /\ exUpl = 0
    /\ balance_format = StandardFormat
    /\ answered = FALSE
    /\ ctx_pos = NonePos
    /\ exec_pos = NonePos
    /\ orders = << >>
    /\ order_result = "none"
    /\ published = NoPublication
    /\ response = NoReply
    /\ prev_close = "NONE"
    /\ at_start = CycleStart
    /\ trade_stats = NoStatsFile
    /\ equity_curve = << >>
    /\ trade_audit = << >>
    /\ stats = NoStats
    /\ moves = 0
    /\ config_reply = "none"
    /\ exLever = 0
    /\ candles = << >>
    /\ QuietLimiter

NextEditor == edit_config

SpecEditor == InitEditor /\ [][NextEditor]_vars

----------------------------------------------------------------------------
(* Start of the program: the module globals and setup_exchange *)

\* a value of bot_config.json that is null, and one that is not a number
\* (Missing is a key the file does not have)
Null == -3
NonNumeric == -4

\* lines 314-319: safe_get_config
safe_get_config(config, key, default) ==
    LET value == IF config[key] = Missing THEN default ELSE config[key]
    IN IF value = Null THEN default ELSE value

\* int(value) and float(value) raise ValueError on a string that is not a
\* number and TypeError on None
NumberRaises(value) == value \in {NonNumeric, Null}

\* what load_bot_config returned at line 311
ConfigFiles ==
    [test_mode : BOOLEAN,
     leverage : {Missing, Null, NonNumeric} \cup 1..MaxLeverage,
     base_usdt_amount : {Missing, Null, NonNumeric, BaseUsdtAmount},
     last_updated : {0}]

\* lines 321-330: the dict display of trading_config is evaluated entry by
\* entry outside any try; an exception ends the import of the module
ModuleInit ==
    /\ pc = "import"
    /\ LET leverage == safe_get_config(bot_config, "leverage", DefaultLeverage)
           base == safe_get_config(bot_config, "base_usdt_amount", BaseUsdtAmount)
       IN IF NumberRaises(leverage)
          THEN /\ pc' = "crashed at line 324"
               /\ UNCHANGED trading_config
          ELSE IF NumberRaises(base)
          THEN /\ pc' = "crashed at line 326"
               /\ UNCHANGED trading_config
          ELSE /\ pc' = "main"
               /\ trading_config' = [amount |-> Amount,
                                     leverage |-> leverage,
                                     test_mode |-> bot_config.test_mode,
                                     base_usdt_amount |-> base]
    /\ UNCHANGED << bot_running, exchange_ok, deepseek_ok, moves, aux, histories,
                    loopLocals, published, exchangeState, files, cycle, at_start,
                    prev_close >>

\* lines 417-429: the leverage setup_exchange works with
ValidLeverage(config) ==
    LET leverage == IF "leverage" \in DOMAIN config THEN config.leverage
                    ELSE DefaultLeverage
    IN IF NumberRaises(leverage) THEN DefaultLeverage ELSE leverage

\* lines 408-477: setup_exchange, called once before the server starts
\* (line 2447); the exchange calls can fail, which is logged
setup_exchange ==
    /\ pc = "main"
    /\ pc' = "serving"
    /\ IF ~exchange_ok
       THEN UNCHANGED << trading_config, exLever >>
       ELSE \E ok \in BOOLEAN :
              /\ trading_config' = [trading_config EXCEPT
                                      !.leverage = ValidLeverage(trading_config)]
              /\ exLever' = IF ok THEN ValidLeverage(trading_config) ELSE exLever
    /\ UNCHANGED << bot_running, exchange_ok, deepseek_ok, moves, trade_audit,
                    stats, observed, balance_format, config_reply, candles, limiter,
                    histories,
                    loopLocals, published, exchangeState, files, cycle, at_start,
                    prev_close >>

InitConfig ==
    /\ bot_running = FALSE
    /\ pc = "import"
    /\ exchange_ok \in BOOLEAN
    /\ deepseek_ok = TRUE
    /\ bot_config \in ConfigFiles
    /\ trading_config = << >>
    /\ cycle = 0
    /\ price_data = NoPrice
    /\ price_history = << >>
    /\ observed = << >>
    /\ signal_history = << >>
    /\ signal_data = NoSignal
    /\ exPos = 0
    /\ exBal = BaseUsdtAmount
    /\ exUpl = 0
    /\ balance_format = StandardFormat
    /\ answered = FALSE
    /\ ctx_pos = NonePos
    /\ exec_pos = NonePos
    /\ orders = << >>
    /\ order_result = "none"
    /\ published = NoPublication
    /\ response = NoReply
    /\ prev_close = "NONE"
    /\ at_start = [trading_config |-> << >>, price_history |-> << >>,
                   signal_history |-> << >>]
    /\ trade_stats = NoStatsFile
    /\ equity_curve = << >>
    /\ trade_audit = << >>
    /\ stats = NoStats
    /\ moves = 0
    /\ config_reply = "none"
    /\ exLever = 0
    /\ candles = << >>
    /\ QuietLimiter

NextConfig ==
    \/ ModuleInit
    \/ setup_exchange

SpecConfig == InitConfig /\ [][NextConfig]_vars

----------------------------------------------------------------------------
(* Stopping the loop: the flag is cleared while trading_bot runs *)

InitStop ==
    /\ bot_running = TRUE
    /\ pc = "loop_top"
    /\ exchange_ok = TRUE
    /\ deepseek_ok = TRUE
    /\ bot_config \in {[test_mode |-> t, base_usdt_amount |-> BaseUsdtAmount,
                        last_updated |-> 0] : t \in BOOLEAN}
    /\ trading_config = [amount |-> Amount, test_mode |-> bot_config.test_mode,
                         base_usdt_amount |-> bot_config.base_usdt_amount]
    /\ cycle = MaxCycles - 1
    /\ price_data = NoPrice
    /\ price_history = << >>
    /\ observed = << >>
    /\ signal_history = << >>
    /\ signal_data = NoSignal
    /\ exPos \in {-Amount, Amount}
    /\ exBal = BaseUsdtAmount
    /\ exUpl = 0
    /\ balance_format = StandardFormat
    /\ answered = FALSE
    /\ ctx_pos = NonePos
    /\ exec_pos = NonePos
    /\ orders = << >>
    /\ order_result = "none"
    /\ published = NoPublication
    /\ response = NoReply
    /\ prev_close = "NONE"
    /\ at_start = CycleStart
    /\ trade_stats = NoStatsFile
    /\ equity_curve = << EquityPoint(0, BaseUsdtAmount) >>
    /\ trade_audit = << >>
    /\ stats = NoStats
    /\ moves = 0
    /\ config_reply = "none"
    /\ exLever = 0
    /\ candles = << >>
    /\ QuietLimiter

NextStop ==
    \/ LoopStep
    \/ StopBot

\* the thread of trading_bot keeps running: every sleep returns and every
\* call comes back, with a result or an exception
SpecStop == InitStop /\ [][NextStop]_vars /\ WF_vars(LoopStep)

----------------------------------------------------------------------------
(* get_btc_ohlcv: from the candles of the exchange to the snapshot *)

\* a candle of the response: its open time and its close
Candle(ts) == [ts |-> ts, close |-> 100 + ts]

\* sequences without repetition over the set S
RECURSIVE Arrangements(_)
Arrangements(S) ==
    {<< >>} \cup UNION {{<< x >> \o rest : rest \in Arrangements(S \ {x})} : x \in S}

\* the responses of public_get_market_candles: any candles in any order
CandleResponses ==
    {[i \in 1..Len(a) |-> Candle(a[i])] : a \in Arrangements(1..MaxCandles)}

\* line 507: reversed(response['data'])
Reversed(data) == [i \in 1..Len(data) |-> data[Len(data) + 1 - i]]

\* lines 521-522: df.iloc[-1], and df.iloc[-2] when there are two rows
CurrentBar(ohlcv) == ohlcv[Len(ohlcv)]
PreviousBar(ohlcv) == IF Len(ohlcv) > 1 THEN ohlcv[Len(ohlcv) - 1] ELSE CurrentBar(ohlcv)

\* lines 478-536: get_btc_ohlcv; None when the response is empty (line 502)
get_btc_ohlcv(data, now) ==
    IF data = << >> THEN [price |-> 0, timestamp |-> 0, bar |-> 0, previous |-> 0]
    ELSE LET ohlcv == Reversed(data) IN
         [price |-> CurrentBar(ohlcv).close,
          timestamp |-> now,
          bar |-> CurrentBar(ohlcv).ts,
          previous |-> PreviousBar(ohlcv).ts]

\* one call of get_btc_ohlcv
FetchCandles ==
    /\ pc = "snapshot"
    /\ price_data' = get_btc_ohlcv(candles, cycle)
    /\ pc' = IF candles = << >> THEN "backoff" ELSE "analyze"
    /\ UNCHANGED << bot_running, globals, aux, histories, signal_data, ctx_pos,
                    exec_pos, orders, order_result, response, answered, published,
                    exchangeState, files, cycle, at_start, prev_close >>

InitCandles ==
    /\ bot_running = TRUE
    /\ pc = "snapshot"
    /\ exchange_ok = TRUE
    /\ deepseek_ok = TRUE
    /\ bot_config = [test_mode |-> TRUE, base_usdt_amount |-> BaseUsdtAmount,
                     last_updated |-> 0]
    /\ trading_config = [amount |-> Amount, test_mode |-> bot_config.test_mode,
                         base_usdt_amount |-> bot_config.base_usdt_amount]
    /\ cycle = 1
    /\ price_data = NoPrice
    /\ price_history = << >>
    /\ observed = << >>
    /\ signal_history = << >>
    /\ signal_data = NoSignal
    /\ exPos = 0
    /\ exBal = BaseUsdtAmount
    /\ exUpl = 0
    /\ balance_format = StandardFormat
    /\ answered = FALSE
    /\ ctx_pos = NonePos
    /\ exec_pos = NonePos
    /\ orders = << >>
    /\ order_result = "none"
    /\ published = NoPublication
    /\ response = NoReply
    /\ prev_close = "NONE"
    /\ at_start = CycleStart
    /\ trade_stats = NoStatsFile
    /\ equity_curve = << >>
    /\ trade_audit = << >>
    /\ stats = NoStats
    /\ moves = 0
    /\ config_reply = "none"
    /\ exLever = 0
    /\ candles \in CandleResponses
    /\ QuietLimiter

NextCandles == FetchCandles

SpecCandles == InitCandles /\ [][NextCandles]_vars

----------------------------------------------------------------------------
(* rate_limit: request threads of one client inside decorated_function *)

Threads == 1..MaxThreads

\* everything the decorator leaves alone
notLimiter == << bot_running, pc, globals, histories, loopLocals, published,
                 exchangeState, files, cycle, at_start, prev_close, trade_audit,
                 stats, observed, balance_format, config_reply, exLever, candles >>

\* the request is let through to the handler (line 126)
Admit(t) ==
    admitted' = [admitted EXCEPT ![handlers[t].current_time \div Window] = @ + 1]

\* lines 112-113: a request arrives and reads the time
Arrive(t) ==
    /\ handlers[t].pc = "idle"
    /\ handlers' = [handlers EXCEPT ![t] = [IdleHandler EXCEPT
                                               !.pc = "member",
                                               !.current_time = clock]]
    /\ UNCHANGED << RATE_LIMIT, admitted, clock, notLimiter >>

\* line 115: if client_ip in RATE_LIMIT
CheckMember(t) ==
    /\ handlers[t].pc = "member"
    /\ handlers' = [handlers EXCEPT ![t].pc =
                      IF RATE_LIMIT.present THEN "window" ELSE "create"]
    /\ UNCHANGED << RATE_LIMIT, admitted, clock, notLimiter >>

\* line 116: if current_time - RATE_LIMIT[client_ip]['last_request'] < 60
CheckWindow(t) ==
    /\ handlers[t].pc = "window"
    /\ handlers' = [handlers EXCEPT ![t].pc =
                      IF handlers[t].current_time - RATE_LIMIT.last_request < Window
                      THEN "count" ELSE "create"]
    /\ UNCHANGED << RATE_LIMIT, admitted, clock, notLimiter >>

\* lines 117-119: if RATE_LIMIT[client_ip]['count'] >= MAX_REQUESTS_PER_MINUTE,
\* answer 429
CheckCount(t) ==
    /\ handlers[t].pc = "count"
    /\ handlers' = [handlers EXCEPT ![t] =
                      IF RATE_LIMIT.count >= MAX_REQUESTS_PER_MINUTE
                      THEN Rejected ELSE [@ EXCEPT !.pc = "load"]]
    /\ UNCHANGED << RATE_LIMIT, admitted, clock, notLimiter >>

\* line 120, first half of count += 1: the dict and its count are read
LoadCount(t) ==
    /\ handlers[t].pc = "load"
    /\ handlers' = [handlers EXCEPT ![t] = [@ EXCEPT !.pc = "store",
                                                     !.entry = RATE_LIMIT.id,
                                                     !.loaded = RATE_LIMIT.count]]
    /\ UNCHANGED << RATE_LIMIT, admitted, clock, notLimiter >>

\* line 120, second half: the sum is stored into the dict that was read,
\* which is the entry of the client unless another thread has replaced it
StoreCount(t) ==
    /\ handlers[t].pc = "store"
    /\ RATE_LIMIT' = IF RATE_LIMIT.id = handlers[t].entry
                     THEN [RATE_LIMIT EXCEPT !.count = handlers[t].loaded + 1]
                     ELSE RATE_LIMIT
    /\ Admit(t)
    /\ handlers' = [handlers EXCEPT ![t] = Passed]
    /\ UNCHANGED << clock, notLimiter >>

\* lines 122 and 124: RATE_LIMIT[client_ip] = {'count': 1, 'last_request': ...}
CreateEntry(t) ==
    /\ handlers[t].pc = "create"
    /\ RATE_LIMIT' = [present |-> TRUE, count |-> 1,
                      last_request |-> handlers[t].current_time,
                      id |-> RATE_LIMIT.id + 1]
    /\ Admit(t)
    /\ handlers' = [handlers EXCEPT ![t] = Passed]
    /\ UNCHANGED << clock, notLimiter >>

\* a minute passes
Tick ==
    /\ clock < MaxWindows * Window
    /\ clock' = clock + Window
    /\ UNCHANGED << RATE_LIMIT, handlers, admitted, notLimiter >>

\* the client has made no request, or a number of requests one after the
\* other within the last minute
InitRate ==
    /\ bot_running = FALSE
    /\ pc = "stopped"
    /\ exchange_ok = TRUE
    /\ deepseek_ok = TRUE
    /\ bot_config = [test_mode |-> TRUE, base_usdt_amount |-> BaseUsdtAmount,
                     last_updated |-> 0]
    /\ trading_config = [amount |-> Amount, test_mode |-> bot_config.test_mode,
                         base_usdt_amount |-> bot_config.base_usdt_amount]
    /\ cycle = 0
    /\ price_data = NoPrice
    /\ price_history = << >>
    /\ observed = << >>
    /\ signal_history = << >>
    /\ signal_data = NoSignal
    /\ exPos = 0
    /\ exBal = BaseUsdtAmount
    /\ exUpl = 0
    /\ balance_format = StandardFormat
    /\ answered = FALSE
    /\ ctx_pos = NonePos
    /\ exec_pos = NonePos
    /\ orders = << >>
    /\ order_result = "none"
    /\ published = NoPublication
    /\ response = NoReply
    /\ prev_close = "NONE"
    /\ at_start = CycleStart
    /\ trade_stats = NoStatsFile
    /\ equity_curve = << >>
    /\ trade_audit = << >>
    /\ stats = NoStats
    /\ moves = 0
    /\ config_reply = "none"
    /\ exLever = 0
    /\ candles = << >>
    /\ RATE_LIMIT \in {NoEntry} \cup
                      {[present |-> TRUE, count |-> n, last_request |-> 0, id |-> 1] :
                         n \in (MAX_REQUESTS_PER_MINUTE - MaxThreads)..MAX_REQUESTS_PER_MINUTE}
    /\ handlers = [t \in Threads |-> IdleHandler]
    /\ admitted = [w \in 0..MaxWindows |-> IF w = 0 THEN RATE_LIMIT.count ELSE 0]
    /\ clock = 0

NextRate ==
    \/ \E t \in Threads :
         \/ Arrive(t)
         \/ CheckMember(t)
         \/ CheckWindow(t)
         \/ CheckCount(t)
         \/ LoadCount(t)
         \/ StoreCount(t)
         \/ CreateEntry(t)
    \/ Tick

SpecRate == InitRate /\ [][NextRate]_vars

----------------------------------------------------------------------------
(* Properties of the reconciliation *)

\* signal_data carries the keys execute_trade reads
WellFormed(sd) == sd.kind = "dict" /\ LogKeys \cap sd.missing = {}

Aligned(p, s) ==
    HasSide(p) /\ ((p.side = "long" /\ s = "BUY") \/ (p.side = "short" /\ s = "SELL"))

Opposed(p, s) ==
    HasSide(p) /\ ((p.side = "long" /\ s = "SELL") \/ (p.side = "short" /\ s = "BUY"))

SideOf(s) == IF s = "BUY" THEN "buy" ELSE "sell"

\* the step in which execute_trade runs
ExecStep == pc = "execute" /\ pc' # pc

FailedOrder == {"empty", "rejected", "raise"}

\* C1: in live mode, when the position execute_trade read is aligned with
\* the signal (long and BUY, short and SELL), execute_trade submits no order.
C1_AlignedNoOrder ==
    [][ (ExecStep /\ ~trading_config.test_mode /\ WellFormed(signal_data)
            /\ Aligned(exec_pos', signal_data.signal))
        => orders' = orders ]_vars

\* C2: in live mode, when the position execute_trade read is opposed to the
\* signal, the cycle submits exactly one order: a reduce-only market order on
\* the closing side for the full size of the position; no other order is
\* submitted in that cycle, whatever the confidence.
C2_NoSameCycleFlip ==
    [][ /\ (ExecStep /\ ~trading_config.test_mode /\ WellFormed(signal_data)
                /\ Opposed(exec_pos', signal_data.signal))
            => orders' = << Order(SideOf(signal_data.signal), exec_pos'.size, TRUE) >>
        /\ (pc \notin {"execute", "sleep", "backoff"}) => orders' = orders ]_vars

\* C2 witness: a short position of two units closed by one reduce-only buy
C2_Witness ==
    /\ pc = "post"
    /\ ~trading_config.test_mode
    /\ signal_data.signal = "BUY"
    /\ exec_pos.kind = "pos" /\ exec_pos.side = "short" /\ exec_pos.size = 2
    /\ orders = << Order("buy", 2, TRUE) >>
    /\ order_result = "filled"
    /\ exPos = 0

\* C3: in live mode, when execute_trade reads the account-info-only result
\* (no open position) and the signal is BUY (SELL), the cycle submits exactly
\* one market buy (sell) order of the configured size with reduce_only false,
\* and the trade counters are unchanged.
C3_OpenFromFlat ==
    [][ (ExecStep /\ ~trading_config.test_mode /\ WellFormed(signal_data)
            /\ exec_pos'.kind = "flat" /\ signal_data.signal \in {"BUY", "SELL"})
        => /\ orders' = << Order(SideOf(signal_data.signal), trading_config.amount, FALSE) >>
           /\ trade_stats' = trade_stats ]_vars

\* C4: when a cycle has closed a position on a BUY or SELL signal and the
\* next cycle successfully observes a flat account (the inference, if asked,
\* repeating the signal), that next cycle submits the opening order in the
\* direction of the signal.
C4_TwoCycleReversal ==
    (/\ pc \in {"sleep", "backoff"}
     /\ prev_close \in {"BUY", "SELL"}
     /\ ctx_pos.kind = "flat"
     /\ (signal_data.kind = "none" \/ signal_data.signal = prev_close))
    => orders = << Order(SideOf(prev_close), trading_config.amount, FALSE) >>

\* C5: a cycle whose signal is HOLD submits no order, for every position
\* state and in live and test mode alike.
C5_HoldNoOrder ==
    (signal_data.kind = "dict" /\ signal_data.signal = "HOLD") => orders = << >>

\* C5 witness: HOLD in live mode with an open position, after execute_trade
C5_Witness ==
    /\ pc = "sleep"
    /\ ~trading_config.test_mode
    /\ WellFormed(signal_data) /\ signal_data.signal = "HOLD"
    /\ exec_pos.kind = "pos"
    /\ published.event = "update_data"
    /\ orders = << >>

\* C6: while test_mode is on, no step of the cycle submits an order, and no
\* step of the cycle changes the trade counters or the equity sequence.
C6_DryRun ==
    [][ (trading_config.test_mode /\ pc' # pc)
        => /\ Len(orders') <= Len(orders)
           /\ exPos' = exPos
           /\ trade_stats' = trade_stats
           /\ equity_curve' = equity_curve ]_vars

\* C6 witness: test mode, BUY against a short position, execute_trade done
C6_Witness ==
    /\ pc = "post"
    /\ trading_config.test_mode
    /\ WellFormed(signal_data) /\ signal_data.signal = "BUY"
    /\ exec_pos.kind = "pos" /\ exec_pos.side = "short"
    /\ orders = << >>

\* C7: when the order call of a cycle fails (empty response, rejection,
\* exception), the cycle has submitted exactly one order and goes on to the
\* publish step instead of the backoff; the order is not submitted again.
C7_OrderFailureContained ==
    order_result \in FailedOrder
    => /\ Len(orders) = 1
       /\ pc \in {"post", "sleep"}
       /\ pc = "sleep" => published.event = "update_data"

\* C7 witness: a rejected order and the cycle's publication
C7_Witness ==
    /\ order_result = "rejected"
    /\ pc = "sleep"
    /\ published.event = "update_data"
    /\ Len(orders) = 1

\* C8: execute_trade submits no order on the basis of a failed position
\* read (get_current_position returned None).
C8_FailedReadNotFlat ==
    [][ (ExecStep /\ exec_pos'.kind = "none") => orders' = orders ]_vars

\* C9: when a reduce-only closing order fills, total_trades increases by
\* one and exactly one of winning_trades and losing_trades increases by one,
\* in the persisted counters.
C9_CloseRealizesStats ==
    [][ (ExecStep /\ order_result' = "filled" /\ orders'[Len(orders')].reduceOnly)
        => /\ trade_stats'.exists
           /\ trade_stats'.total_trades = trade_stats.total_trades + 1
           /\ \/ /\ trade_stats'.winning_trades = trade_stats.winning_trades + 1
                 /\ trade_stats'.losing_trades = trade_stats.losing_trades
              \/ /\ trade_stats'.winning_trades = trade_stats.winning_trades
                 /\ trade_stats'.losing_trades = trade_stats.losing_trades + 1 ]_vars

\* C10: in a cycle whose freshly fetched total balance differs from the
\* balance of the last recorded equity point by more than 0.01, a point with
\* that balance is appended to the equity sequence; otherwise none is.
C10_EquityRecorded ==
    [][ (pc = "post" /\ pc' = "sleep" /\ published'.position.kind # "none"
            /\ Len(equity_curve) > 0)
        => LET fetched == published'.position.total_balance
               last == equity_curve[Len(equity_curve)].balance
           IN IF Abs(fetched - last) > Epsilon
              THEN /\ Len(equity_curve') = Len(equity_curve) + 1
                   /\ equity_curve'[Len(equity_curve')].balance = Round2(fetched)
              ELSE equity_curve' = equity_curve ]_vars

\* C11: every equity sequence persisted to equity_curve.json has
\* non-decreasing timestamps, the sequences rebuilt from the audit log and
\* the sequences initialised from the configured amount included.
C11_EquityMonotonic ==
    \A i \in 1..(Len(equity_curve) - 1) :
        equity_curve[i].timestamp <= equity_curve[i + 1].timestamp

\* the running maximum of the first i balances
RunningMax(b, i) == CHOOSE m \in {b[j] : j \in 1..i} : \A j \in 1..i : b[j] <= m

\* C12: over the persisted balances followed by the live balance, the
\* reported max_balance is the running maximum at the end and the reported
\* max_drawdown is the most negative (balance - running_max) / running_max.
C12_Drawdown ==
    (stats # NoStats /\ equity_curve # << >>)
    => LET b == Balances(equity_curve) \o << stats.current >>
           dd == {PercentOf(b[i], RunningMax(b, i)) : i \in 1..Len(b)}
       IN /\ stats.max_balance = RunningMax(b, Len(b))
          /\ stats.max_drawdown = CHOOSE d \in dd : \A e \in dd : d <= e

\* C12 witness: the series 100, 120, 90, 130 with max drawdown -25%
C12_Witness ==
    /\ Balances(equity_curve) = << 100000, 120000, 90000, 130000 >>
    /\ stats.max_balance = 130000
    /\ stats.max_drawdown = -2500

\* C13: after n snapshots have been recorded, price_history has length
\* min(n, 20) (20 after 25) and holds the most recent observations in
\* arrival order; its length never exceeds 20.
C13_BoundedPriceHistory ==
    LET n == Len(observed)
        k == IF n < 20 THEN n ELSE 20
    IN /\ Len(price_history) = k
       /\ price_history = SubSeq(observed, n - k + 1, n)
       /\ n = 25 => Len(price_history) = 20

\* C13 witness: 25 snapshots recorded, the five oldest evicted
C13_Witness ==
    /\ Len(observed) = 25
    /\ Len(price_history) = 20
    /\ price_history[1] = observed[6]
    /\ price_history[20] = observed[25]

\* the step in which the reply is parsed
ParseStep == pc = "inference" /\ pc' # pc

\* the reply holds an object whose members are the reply's signal fields
HoldsObject(r) == ~r.raises /\ JsonStr(r.text) = << "{", "j", "}" >>

\* analyze_with_deepseek yields None: nothing recorded, no order, backoff
Unavailable ==
    /\ signal_data' = NoSignal
    /\ signal_history' = signal_history
    /\ orders' = orders
    /\ pc' = "backoff"

\* C14: a reply whose JSON object lacks one of the five required fields is
\* a parse failure: no signal is yielded, nothing is appended to
\* signal_history, and the cycle submits no order.
C14_StrictSchema ==
    [][ (ParseStep /\ HoldsObject(response') /\ response'.missing # {})
        => Unavailable ]_vars

\* the text has no span from a first '{' to a later last '}'
NoSpan(t) ==
    Find(t, "{") = 0 \/ RFind(t, "}") = 0 \/ RFind(t, "}") < Find(t, "{")

BraceFree(t) == \A i \in 1..Len(t) : t[i] \notin {"{", "}"}

\* a signal object with any text before and after it
Embedded(t) ==
    \E i \in 1..(Len(t) - 2) : SubSeq(t, i, i + 2) = << "{", "j", "}" >>

\* a signal object with text before and after it that has no brace in it
EmbeddedInProse(t) ==
    \E i \in 1..(Len(t) - 2) :
        /\ SubSeq(t, i, i + 2) = << "{", "j", "}" >>
        /\ BraceFree(SubSeq(t, 1, i - 1))
        /\ BraceFree(SubSeq(t, i + 3, Len(t)))

\* the reply's object has become the signal of the cycle
Parsed ==
    /\ signal_data' = SignalDict(response'.signal, response'.confidence,
                                 response'.missing, price_data.timestamp)
    /\ signal_history' = Append(signal_history, price_data.timestamp)
    /\ pc' = "execute"

\* C15 as stated: a signal object surrounded by arbitrary text parses into
\* the signal fields; a reply without a span from the first '{' to the last
\* '}' yields None and leaves signal_history and the orders alone.
C15_AnyProse ==
    [][ ParseStep => /\ Embedded(response'.text) => Parsed
                     /\ NoSpan(response'.text) => Unavailable ]_vars

\* C15 amended: a signal object surrounded by text that contains no brace
\* parses into the signal fields; a reply without a span yields None and
\* leaves signal_history and the orders alone.
C15_BraceFreeProse ==
    [][ ParseStep => /\ EmbeddedInProse(response'.text) => Parsed
                     /\ NoSpan(response'.text) => Unavailable ]_vars

\* C15 witness: the object between two characters of prose has been parsed
C15_Witness ==
    /\ pc = "execute"
    /\ response.text = << "x", "{", "j", "}", "x" >>
    /\ signal_data.kind = "dict" /\ signal_data.signal = "BUY"
    /\ signal_data.confidence = "HIGH"
    /\ signal_history = << 1 >>

\* every field of the balance payload is '0'
ZeroBalances == \A f \in BalanceFields : BalancePayload(exBal)[f] = 0

\* C16: when the exchange answers the position query and the balance query,
\* with no open position and every balance field zero, get_current_position
\* returns the account-info-only outcome with free and total balance 0, not
\* None.
C16_ZeroBalanceIsNotFailure ==
    [][ (pc = "analyze" /\ pc' # pc /\ answered' /\ exPos = 0 /\ ZeroBalances)
        => ctx_pos' = AccountInfoOnly(0, 0) ]_vars

\* C16 witness: the read of an empty account was answered and returned the
\* account-info-only outcome
C16_Witness ==
    /\ answered
    /\ exPos = 0 /\ ZeroBalances
    /\ ctx_pos = AccountInfoOnly(0, 0)
    /\ ctx_pos # NonePos

\* C17: a cycle of trading_bot ends either in the normal sleep, having
\* published a fresh 'update_data' snapshot, or in the backoff, having
\* published nothing; both ends lead to the top of the loop, the loop leaves
\* only at the top and only when bot_running is false, and at every stage of
\* a cycle the loop thread has a next step.
C17_FailureIsolation ==
    /\ [][ /\ (pc' = "sleep" /\ pc # "sleep")
              => /\ published'.event = "update_data"
                 /\ published'.price = 100 + cycle
           /\ (pc' = "backoff" /\ pc # "backoff") => published' = NoPublication
           /\ (pc \in {"sleep", "backoff"} /\ pc' # pc) => pc' = "loop_top"
           /\ (pc' = "stopped" /\ pc # "stopped")
              => (pc = "loop_top" /\ ~bot_running) ]_vars
    /\ [](pc \in {"snapshot", "analyze", "inference", "execute", "post",
                  "sleep", "backoff"} => ENABLED LoopStep)

\* C17 witness: a cycle that failed before any signal was recorded, followed
\* by a cycle that published and reached the normal sleep
C17_Witness ==
    /\ bot_running
    /\ cycle = 2
    /\ pc = "sleep"
    /\ published.event = "update_data"
    /\ Len(signal_history) = 1

\* C18: when a cycle fails at any stage (it ends in the backoff), price_history
\* and signal_history are what they were when the cycle started.
C18_NoStateCarriedForward ==
    pc = "backoff"
    => /\ price_history = at_start.price_history
       /\ signal_history = at_start.signal_history

\* C19: the cycle in flight trades with the test_mode and the order size in
\* force when it started, whatever update_config did since: no order in a
\* cycle that started in test mode, and an opening order of the amount the
\* cycle started with.
C19_ConfigChangeNextCycle ==
    [][ ExecStep
        => /\ at_start.trading_config.test_mode => orders' = orders
           /\ \A i \in 1..Len(orders') :
                ~orders'[i].reduceOnly
                => orders'[i].sz = at_start.trading_config.amount ]_vars

\* C20: when the leverage option of bot_config.json is None or not a number,
\* the program goes on with leverage 10: the import of the module does not
\* end in an exception at the leverage entry, and once trading_config exists
\* its leverage is the default.
C20_LeverageDefault ==
    bot_config.leverage \in {Null, NonNumeric}
    => /\ pc # "crashed at line 324"
       /\ pc \in {"main", "serving"} => trading_config.leverage = DefaultLeverage

\* the values of a configuration are inside the documented ranges
Documented(config) ==
    /\ config.leverage \in 1..LeverageLimit
    /\ config.timeframe \in Timeframes
    /\ config.base_usdt_amount > 0

\* C21: update_config rejects every request with a value outside the
\* documented ranges or an unrecognised key, so that neither trading_config
\* nor bot_config.json ever holds such a value, and a rejected request changes
\* neither of them.
C21_EditorRejects ==
    /\ [](Documented(trading_config) /\ Documented(bot_config))
    /\ [][ config_reply' = "400"
           => (trading_config' = trading_config /\ bot_config' = bot_config) ]_vars

\* C29: whenever update_config answers with a status other than success
\* (400 or 500), the request has changed neither trading_config nor
\* bot_config.json.
C29_AllOrNothing ==
    [][ config_reply' \in {"400", "500"}
        => (trading_config' = trading_config /\ bot_config' = bot_config) ]_vars

\* what a position read returns for the account as it is now
PosReads == {get_current_position(ok, exPos, exUpl, exBal) : ok \in BOOLEAN}

\* C22: in a cycle that reaches the publish step the position is read from
\* the exchange before the inference collaborator is called (no reply has
\* been received when the read returns), nothing reads into the signal context
\* afterwards, and the position published is a read of the account as it is
\* after execute_trade has finished, with every order of the cycle submitted.
C22_ReadOrdering ==
    [][ /\ (pc = "analyze" /\ pc' = "inference")
           => (ctx_pos' \in PosReads /\ response = NoReply /\ response' = NoReply)
        /\ (pc = "inference" /\ pc' # pc) => ctx_pos' = ctx_pos
        /\ (pc = "execute" /\ pc' # pc) => (pc' # "sleep" /\ published' = NoPublication)
        /\ (pc = "post" /\ pc' = "sleep")
           => /\ published'.position \in PosReads
              /\ orders' = orders /\ exchangeState' = exchangeState
        /\ pc' = "sleep" => pc \in {"post", "sleep"} ]_vars

\* C22 witness: a short position was read as the signal context, the order
\* that closed it filled, and the cycle published the flat account of the
\* second read
C22_Witness ==
    /\ pc = "sleep"
    /\ ctx_pos.kind = "pos" /\ ctx_pos.side = "short"
    /\ order_result = "filled"
    /\ published.event = "update_data"
    /\ published.position.kind = "flat"
    /\ published.position # ctx_pos

\* C23: the position execute_trade diffs the signal against is the position
\* result the signal was generated with.
C23_OnePositionPerCycle ==
    [][ ExecStep => exec_pos' = ctx_pos ]_vars

\* C24: once bot_running is False, trading_bot starts no further cycle, leaves
\* the loop only at its top (the cycle in flight is not cut short: the loop
\* goes from the order submission on to the publish step and the sleep), and
\* terminates.
C24_StopLoop ==
    /\ [][ /\ (~bot_running /\ ~bot_running') => cycle' = cycle
           /\ (pc' = "stopped" /\ pc # "stopped") => pc = "loop_top"
           /\ (pc = "execute" /\ pc' # pc) => pc' \in {"post", "backoff"} ]_vars
    /\ (~bot_running ~> pc = "stopped")

\* C24 witness: the flag is cleared and the cycle in flight has submitted its
\* order, published and reached its sleep
C24_Witness ==
    /\ ~bot_running
    /\ pc = "sleep"
    /\ order_result = "filled"
    /\ published.event = "update_data"

\* the open times of the candles of a response
Times(data) == {data[i].ts : i \in 1..Len(data)}

\* C25: whatever the order of the candles in the response, the current bar of
\* the snapshot is the candle with the greatest open time and the previous
\* bar the one just before it.
C25_CandleOrdering ==
    pc = "analyze"
    => /\ \A t \in Times(candles) : t <= price_data.bar
       /\ \A t \in Times(candles) \ {price_data.bar} : t <= price_data.previous

\* the result p of a position read agrees with the raw quantity raw
PositionState(p, raw) ==
    /\ HasSide(p) => /\ p.size > 0
                     /\ p.size = Abs(raw)
                     /\ p.side \in {"long", "short"}
                     /\ p.side = "long" <=> raw > 0
                     /\ p.side = "short" <=> raw < 0
    /\ (raw = 0 /\ Truthy(p)) => (p.kind = "flat" /\ p.size = 0)
    /\ (raw # 0 /\ Truthy(p)) => HasSide(p)

\* C26: every result of get_current_position that carries a side has a
\* positive size equal to the absolute raw quantity, long for a positive and
\* short for a negative quantity; a raw quantity of 0 is reported as the
\* no-position outcome.  Checked on both reads of a cycle.
C26_PositionState ==
    [][ /\ (pc = "analyze" /\ pc' # pc /\ deepseek_ok) => PositionState(ctx_pos', exPos)
        /\ ExecStep => PositionState(exec_pos', exPos) ]_vars

\* C26 witness: a short of the largest size read as such by both reads of the
\* cycle, and then closed
C26_Witness ==
    /\ pc = "post"
    /\ ctx_pos.kind = "pos" /\ ctx_pos.side = "short" /\ ctx_pos.size = MaxPos
    /\ ctx_pos.position_amt = -MaxPos
    /\ exec_pos = ctx_pos
    /\ exPos = 0

\* C27: a cycle whose calls all succeed goes on to the publish step whatever
\* the account holds: when the position read of the signal stage succeeds
\* (flat, long or short), the cycle does not fall into the failure backoff at
\* that stage.
C27_Progress ==
    [][ (pc = "analyze" /\ deepseek_ok /\ answered' /\ Truthy(ctx_pos'))
        => pc' # "backoff" ]_vars

\* C28: a cycle submits at most one order, whatever the signal, the position
\* read and the response of the exchange; a reduce-only order is on the side
\* opposite to the position execute_trade read and has that position's size.
C28_AtMostOneOrder ==
    /\ Len(orders) <= 1
    /\ \A i \in 1..Len(orders) :
         orders[i].reduceOnly
         => /\ exec_pos.kind = "pos"
            /\ orders[i].sz = exec_pos.size
            /\ orders[i].side = (IF exec_pos.side = "long" THEN "sell" ELSE "buy")

\* C28 witness: the one order of a cycle that read a long of the largest size
\* and got the signal SELL, rejected by the exchange and not submitted again
C28_Witness ==
    /\ pc = "sleep"
    /\ exec_pos.kind = "pos" /\ exec_pos.side = "long" /\ exec_pos.size = MaxPos
    /\ orders = << Order("sell", MaxPos, TRUE) >>
    /\ order_result = "rejected"

\* C30: for any interleaving of the request threads of one client, at most
\* MAX_REQUESTS_PER_MINUTE requests of a window are let through, and the count
\* of the client never exceeds that number.
C30_RateLimitBound ==
    /\ RATE_LIMIT.count <= MAX_REQUESTS_PER_MINUTE
    /\ \A w \in 0..MaxWindows : admitted[w] <= MAX_REQUESTS_PER_MINUTE

====
